---- MODULE Spec2Model ----
(***************************************************************************)
(* PlayerV: the music library / playlist store (MusicLibrary in            *)
(* src/main.py) together with the window, home-page and playlist-page      *)
(* handlers that drive it.  Handlers run to completion on the UI thread,   *)
(* so each handler is one action.                                          *)
(*                                                                         *)
(* Python values are represented as follows:                               *)
(*   list            a sequence                                            *)
(*   dict            a function on its keys; no operation depends on the   *)
(*                   order of the keys, which is left out                  *)
(*   None            the value None below                                  *)
(*   track dict      [id, play_count, last_played]; id k stands for the    *)
(*                   md5 hex digest of the k-th file path of the music     *)
(*                   directory.  The other fields (title, artist, ...)     *)
(*                   are strings, integers or None like these three, are   *)
(*                   read by no store operation, and are left out          *)
(***************************************************************************)
EXTENDS Integers, Sequences, FiniteSets, TLC

\* ---------------------------------------------------------------- bounds
\* number of distinct audio files (hence of distinct track ids)
MaxTracks == 3
\* cap of 'Recently Added' (50 in src/main.py:680), scaled down
RecentCap == 2
\* cap of 'Most Played' (50 in src/main.py:737), scaled down
MostPlayedCap == 2
\* play counts are counted up to this value
MaxPlays == 2

Ids == 1..MaxTracks
\* the files of a music directory that holds one file less
FewIds == 1..(MaxTracks - 1)
None == "None"
\* values datetime.now().isoformat() may return
Times == {"2026-01-01T00:00:00"}

Favorites == "Favorites"
RecentlyAdded == "Recently Added"
MostPlayed == "Most Played"
\* src/main.py:701, 1531, 1548; src/gui_base/home_page.py:381
SystemPlaylists == {Favorites, RecentlyAdded, MostPlayed}
\* names a user may type into the playlist dialogs
UserNames == {"Mix"}
Names == SystemPlaylists \cup UserNames

\* ------------------------------------------------------ sequence helpers
Range(s) == {s[i] : i \in DOMAIN s}

\* s[:n]
Take(s, n) == IF Len(s) > n THEN SubSeq(s, 1, n) ELSE s

\* list.remove(x): removes the first occurrence
RemoveFirst(s, x) ==
  LET i == CHOOSE j \in DOMAIN s : s[j] = x /\ \A k \in 1..(j - 1) : s[k] # x
  IN  SubSeq(s, 1, i - 1) \o SubSeq(s, i + 1, Len(s))

\* all sequences over S of length at most n
RECURSIVE SeqsUpTo(_, _)
SeqsUpTo(S, n) ==
  IF n = 0 THEN {<<>>}
  ELSE LET shorter == SeqsUpTo(S, n - 1)
       IN  shorter \cup {Append(s, x) : s \in {t \in shorter : Len(t) = n - 1}, x \in S}

\* ---------------------------------------------------- dict of playlists
EmptyDict == [n \in {} |-> <<>>]
HasPlaylist(pl, name) == name \in DOMAIN pl
GetPlaylist(pl, name) == pl[name]
\* pl[name] = ids
SetPlaylist(pl, name, ids) ==
  [n \in DOMAIN pl \cup {name} |-> IF n = name THEN ids ELSE pl[n]]
\* del pl[name] / pl.pop(name)
DelPlaylist(pl, name) == [n \in DOMAIN pl \ {name} |-> pl[n]]
PlaylistNames(pl) == DOMAIN pl

\* ------------------------------------------------------------------ JSON
\* JSON values: <<"null">>, <<"num", n>>, <<"str", s>>; an array is a
\* sequence and an object a function on its member names.  The file is
\* absent, cut short by a failed write, or holds a document.
NoFile == <<"absent">>
Corrupt == <<"corrupt">>

JNull == <<"null">>
JNum(n) == <<"num", n>>
JStr(s) == <<"str", s>>

\* json.dump of one track dict
TrackToJson(t) ==
  [id |-> JStr(t.id),
   play_count |-> JNum(t.play_count),
   last_played |-> IF t.last_played = None THEN JNull ELSE JStr(t.last_played)]

\* json.dump({'tracks': tracks, 'playlists': playlists}, f)
JsonDump(tracks, playlists) ==
  << "file",
     [tracks |-> [i \in DOMAIN tracks |-> TrackToJson(tracks[i])],
      playlists |-> [n \in DOMAIN playlists |->
                       [j \in DOMAIN playlists[n] |-> JStr(playlists[n][j])]]] >>

\* the Python value json.load builds for a JSON null, number or string
FromJson(v) == IF v = JNull THEN None ELSE v[2]

\* a reader that drops last_played: TrackFromJson without its third field
TrackFromJsonFresh(o) ==
  [id |-> FromJson(o.id),
   play_count |-> FromJson(o.play_count),
   last_played |-> None]

TrackFromJson(o) ==
  [id |-> FromJson(o.id),
   play_count |-> FromJson(o.play_count),
   last_played |-> FromJson(o.last_played)]

\* json.load of a complete document, then data.get('tracks', []) and
\* data.get('playlists', {})
JsonLoad(doc) ==
  LET obj == doc[2]
  IN  [tracks |-> [i \in DOMAIN obj.tracks |-> TrackFromJson(obj.tracks[i])],
       playlists |-> [n \in DOMAIN obj.playlists |->
                        [j \in DOMAIN obj.playlists[n] |-> FromJson(obj.playlists[n][j])]]]

\* ----------------------------------------------------------- MusicLibrary
\* A library value is [tracks, playlists, saved]; saved is the content of
\* music_library.json.  Every method returns the library it leaves
\* together with its return value.
MkLib(t, p, s) == [tracks |-> t, playlists |-> p, saved |-> s]
WithRet(lib, r) ==
  [tracks |-> lib.tracks, playlists |-> lib.playlists, saved |-> lib.saved, ret |-> r]
LibOf(r) == MkLib(r.tracks, r.playlists, r.saved)

\* outcome of one write of the file: "ok"; "open_failed" (open() raises,
\* the file is untouched); "dump_failed" (open(path, 'w') has truncated the
\* file and the write raises before the document is complete)
WriteOutcomes == {"ok", "open_failed", "dump_failed"}

DefaultPlaylists == [n \in {Favorites, RecentlyAdded, MostPlayed} |-> <<>>]

load_library(saved) ==
  IF saved # NoFile
  THEN IF saved # Corrupt
       THEN LET data == JsonLoad(saved)
            IN  MkLib(data.tracks, data.playlists, saved)
       ELSE MkLib(<<>>, EmptyDict, saved)
  ELSE MkLib(<<>>, DefaultPlaylists, saved)

\* save_library that writes beside the file and replaces it on success, so
\* that a failed write leaves the earlier content
save_library_beside(lib, w) ==
  IF w = "ok" THEN [lib EXCEPT !.saved = JsonDump(lib.tracks, lib.playlists)] ELSE lib

save_library(lib, w) ==
  CASE w = "ok" -> [lib EXCEPT !.saved = JsonDump(lib.tracks, lib.playlists)]
    [] w = "open_failed" -> lib
    [] w = "dump_failed" -> [lib EXCEPT !.saved = Corrupt]

existing_ids(tracks) == {tracks[i].id : i \in DOMAIN tracks}

\* add_track without the test for a known id
add_track_unchecked(lib, track_info, w) ==
  LET tr == Append(lib.tracks, track_info)
      pl == IF HasPlaylist(lib.playlists, RecentlyAdded)
            THEN SetPlaylist(lib.playlists, RecentlyAdded,
                             Take(<<track_info.id>> \o GetPlaylist(lib.playlists, RecentlyAdded),
                                  RecentCap))
            ELSE lib.playlists
  IN  WithRet(save_library(MkLib(tr, pl, lib.saved), w), TRUE)

\* add_track that compares the new id with the newest track only
add_track_last_only(lib, track_info, w) ==
  IF lib.tracks = <<>> \/ lib.tracks[Len(lib.tracks)].id # track_info.id
  THEN add_track_unchecked(lib, track_info, w)
  ELSE WithRet(lib, FALSE)

\* add_track that puts the new id at the end of Recently Added
add_track_append(lib, track_info, w) ==
  IF track_info.id \notin existing_ids(lib.tracks)
  THEN LET tr == Append(lib.tracks, track_info)
           pl == IF HasPlaylist(lib.playlists, RecentlyAdded)
                 THEN SetPlaylist(lib.playlists, RecentlyAdded,
                                  Take(Append(GetPlaylist(lib.playlists, RecentlyAdded),
                                              track_info.id), RecentCap))
                 ELSE lib.playlists
       IN  WithRet(save_library(MkLib(tr, pl, lib.saved), w), TRUE)
  ELSE WithRet(lib, FALSE)

add_track(lib, track_info, w) ==
  IF track_info.id \notin existing_ids(lib.tracks)
  THEN LET tr == Append(lib.tracks, track_info)
           pl == IF HasPlaylist(lib.playlists, RecentlyAdded)
                 THEN LET ins == <<track_info.id>> \o GetPlaylist(lib.playlists, RecentlyAdded)
                      IN  SetPlaylist(lib.playlists, RecentlyAdded,
                                      IF Len(ins) > RecentCap THEN SubSeq(ins, 1, RecentCap) ELSE ins)
                 ELSE lib.playlists
       IN  WithRet(save_library(MkLib(tr, pl, lib.saved), w), TRUE)
  ELSE WithRet(lib, FALSE)

create_playlist(lib, name, w) ==
  IF ~HasPlaylist(lib.playlists, name)
  THEN WithRet(save_library(MkLib(lib.tracks, SetPlaylist(lib.playlists, name, <<>>), lib.saved), w), TRUE)
  ELSE WithRet(lib, FALSE)

rename_playlist(lib, old_name, new_name, w) ==
  IF HasPlaylist(lib.playlists, old_name) /\ ~HasPlaylist(lib.playlists, new_name)
  THEN LET ids == GetPlaylist(lib.playlists, old_name)
           pl == SetPlaylist(DelPlaylist(lib.playlists, old_name), new_name, ids)
       IN  WithRet(save_library(MkLib(lib.tracks, pl, lib.saved), w), TRUE)
  ELSE WithRet(lib, FALSE)

\* delete_playlist without the protected names
delete_playlist_any(lib, name, w) ==
  IF HasPlaylist(lib.playlists, name)
  THEN WithRet(save_library(MkLib(lib.tracks, DelPlaylist(lib.playlists, name), lib.saved), w), TRUE)
  ELSE WithRet(lib, FALSE)

delete_playlist(lib, name, w) ==
  IF HasPlaylist(lib.playlists, name) /\ name \notin {Favorites, RecentlyAdded, MostPlayed}
  THEN WithRet(save_library(MkLib(lib.tracks, DelPlaylist(lib.playlists, name), lib.saved), w), TRUE)
  ELSE WithRet(lib, FALSE)

add_to_playlist(lib, playlist_name, track_id, w) ==
  IF HasPlaylist(lib.playlists, playlist_name)
     /\ track_id \notin Range(GetPlaylist(lib.playlists, playlist_name))
  THEN LET pl == SetPlaylist(lib.playlists, playlist_name,
                             Append(GetPlaylist(lib.playlists, playlist_name), track_id))
       IN  WithRet(save_library(MkLib(lib.tracks, pl, lib.saved), w), TRUE)
  ELSE WithRet(lib, FALSE)

remove_from_playlist(lib, playlist_name, track_id, w) ==
  IF HasPlaylist(lib.playlists, playlist_name)
     /\ track_id \in Range(GetPlaylist(lib.playlists, playlist_name))
  THEN LET pl == SetPlaylist(lib.playlists, playlist_name,
                             RemoveFirst(GetPlaylist(lib.playlists, playlist_name), track_id))
       IN  WithRet(save_library(MkLib(lib.tracks, pl, lib.saved), w), TRUE)
  ELSE WithRet(lib, FALSE)

\* list.sort(key=play_count, reverse=True): stable, so pairs with equal
\* counts keep the order they had
RECURSIVE SortByCountDesc(_)
SortByCountDesc(s) ==
  IF s = <<>> THEN <<>>
  ELSE LET rest == SortByCountDesc(SubSeq(s, 1, Len(s) - 1))
           x == s[Len(s)]
           k == Cardinality({i \in DOMAIN rest : rest[i].play_count >= x.play_count})
       IN  SubSeq(rest, 1, k) \o <<x>> \o SubSeq(rest, k + 1, Len(rest))

\* increment_play_count without most_played_tracks.sort(...)
increment_play_count_unsorted(lib, track_id, now, w) ==
  IF track_id \in existing_ids(lib.tracks)
  THEN LET i == CHOOSE j \in DOMAIN lib.tracks :
                   /\ lib.tracks[j].id = track_id
                   /\ \A k \in 1..(j - 1) : lib.tracks[k].id # track_id
           tr == [lib.tracks EXCEPT ![i].play_count = @ + 1, ![i].last_played = now]
           pl == IF HasPlaylist(lib.playlists, MostPlayed)
                 THEN LET mp0 == GetPlaylist(lib.playlists, MostPlayed)
                          mp == IF track_id \notin Range(mp0) THEN Append(mp0, track_id) ELSE mp0
                          cut == Take(SelectSeq(tr, LAMBDA t : t.id \in Range(mp)), MostPlayedCap)
                      IN  SetPlaylist(lib.playlists, MostPlayed, [j \in DOMAIN cut |-> cut[j].id])
                 ELSE lib.playlists
       IN  WithRet(save_library(MkLib(tr, pl, lib.saved), w), TRUE)
  ELSE WithRet(lib, FALSE)

\* the for loop stops at the first track whose id matches (break)
increment_play_count(lib, track_id, now, w) ==
  IF track_id \in existing_ids(lib.tracks)
  THEN LET i == CHOOSE j \in DOMAIN lib.tracks :
                   /\ lib.tracks[j].id = track_id
                   /\ \A k \in 1..(j - 1) : lib.tracks[k].id # track_id
           tr == [lib.tracks EXCEPT ![i].play_count = @ + 1, ![i].last_played = now]
           pl == IF HasPlaylist(lib.playlists, MostPlayed)
                 THEN LET mp0 == GetPlaylist(lib.playlists, MostPlayed)
                          mp == IF track_id \notin Range(mp0) THEN Append(mp0, track_id) ELSE mp0
                          most_played_tracks ==
                            SortByCountDesc(SelectSeq(tr, LAMBDA t : t.id \in Range(mp)))
                          cut == Take(most_played_tracks, MostPlayedCap)
                      IN  SetPlaylist(lib.playlists, MostPlayed, [j \in DOMAIN cut |-> cut[j].id])
                 ELSE lib.playlists
       IN  WithRet(save_library(MkLib(tr, pl, lib.saved), w), TRUE)
  ELSE WithRet(lib, FALSE)

get_track_by_id(lib, track_id) == track_id \in existing_ids(lib.tracks)

\* ids of the tracks get_playlist_tracks returns (ids without a track are
\* skipped)
get_playlist_tracks(lib, playlist_name) ==
  IF HasPlaylist(lib.playlists, playlist_name)
  THEN SelectSeq(GetPlaylist(lib.playlists, playlist_name),
                 LAMBDA id : id \in existing_ids(lib.tracks))
  ELSE <<>>

\* ------------------------------------------------------------------ state
VARIABLES
  tracks,                 \* MusicLibrary.tracks
  playlists,              \* MusicLibrary.playlists
  saved,                  \* content of music_library.json
  scanner,                \* the startup MusicScanner: "running" or "done"
  btn_refresh,            \* MainWindow.btn_refresh is enabled
  current_playlist_name,  \* MainWindow.current_playlist_name
  current_playlist,       \* MainWindow.current_playlist (ids of its track dicts)
  current_track_index,    \* MainWindow.current_track_index
  panel,                  \* the PlaylistItems of the side panel: name -> tracks
  home_playlist,          \* HomePage.current_playlist
  cards,                  \* ids of the song cards the home page shows
  page_playlists,         \* names of Playlist.playlists (playlists.json)
  dir,                    \* the music directory the scanners walk
  threads,                \* the startup and the refresh MusicScanner threads
  signals,                \* the signals each scanner has emitted, in order
  assets,                 \* frame images in each of the two assets directories
  frames,                 \* length of frames_pause_to_play and frames_play_to_pause
  animating,              \* MainWindow._animating
  anim_index,             \* MainWindow._anim_index
  queued_state,           \* MainWindow._queued_state
  is_playing,             \* MainWindow._is_playing
  audio,                  \* state of the audio engine
  timers,                 \* the single-shot timers that wait, with their arguments
  btn_play_icon,          \* what btn_play shows: "play", "pause" or a frame
  on_finished_static,     \* the static icon the running animation ends with
  color_cache,            \* color_model.color_cache: image path -> colors
  last                    \* the handler that ran last, its arguments and result

libvars == <<tracks, playlists, saved>>
winvars == <<current_playlist_name, current_playlist, current_track_index, panel>>
homevars == <<home_playlist, cards>>
scanvars == <<dir, threads, signals>>
playervars == <<assets, frames, animating, anim_index, queued_state, is_playing, audio, timers,
                btn_play_icon, on_finished_static>>
vars == <<tracks, playlists, saved, scanner, btn_refresh, current_playlist_name,
          current_playlist, current_track_index, panel, home_playlist, cards,
          page_playlists, dir, threads, signals, assets, frames, animating,
          anim_index, queued_state, is_playing, audio, timers, btn_play_icon,
          on_finished_static, color_cache, last>>

Lib == MkLib(tracks, playlists, saved)

\* the track dict extract_track_info builds for file k
extract_track_info(k) == [id |-> k, play_count |-> 0, last_played |-> None]

\* lists the scan_complete signal may carry
ScanLists == SeqsUpTo(Ids, MaxTracks)
FewScanLists == SeqsUpTo(FewIds, MaxTracks - 1)
Distinct(lists) == {s \in lists : \A i, j \in DOMAIN s : i # j => s[i] # s[j]}
DistinctLists == Distinct(ScanLists)

\* MainWindow.update_playlist_panel
update_playlist_panel(lib) ==
  [n \in DOMAIN lib.playlists |-> get_playlist_tracks(lib, n)]

\* HomePage.refresh_library: the songs that get a card
refresh_library(lib, playlist) ==
  IF HasPlaylist(lib.playlists, playlist)
  THEN Range(get_playlist_tracks(lib, playlist))
  ELSE existing_ids(lib.tracks)

\* Playlist.get_default_playlists (names only)
get_default_playlists ==
  {"Favorite Tracks", "Workout Mix", "Chill Vibes", "Study Focus", "Road Trip"}

\* Playlist.load_playlists, by the names of the playlists it returns;
\* a document of playlists.json is <<"file", names>>
load_playlists(playlists_file) ==
  IF playlists_file # NoFile
  THEN IF playlists_file # Corrupt
       THEN playlists_file[2]
       ELSE get_default_playlists
  ELSE get_default_playlists

\* what is known of the handler that ran last: its name, the playlist and
\* the track id (or the length of the scan list) it was given, and the value
\* the library method it called returned
Did(op, name, id, ret) == [op |-> op, name |-> name, id |-> id, ret |-> ret]

SetLib(lib) ==
  /\ tracks' = lib.tracks
  /\ playlists' = lib.playlists
  /\ saved' = lib.saved

\* library_updated.emit(): HomePage.refresh_library and
\* MainWindow.update_playlist_panel are connected to it
EmitLibraryUpdated(lib, playlist) ==
  /\ cards' = refresh_library(lib, playlist)
  /\ panel' = update_playlist_panel(lib)

\* the loop over music_data left after its first turn
AddAll_first_turn(lib, music_data, w) ==
  IF music_data = <<>> THEN lib
  ELSE LibOf(add_track(lib, extract_track_info(music_data[1]), w))

\* for track in music_data: self.library.add_track(track)
RECURSIVE AddAll(_, _, _)
AddAll(lib, music_data, w) ==
  IF music_data = <<>> THEN lib
  ELSE AddAll(LibOf(add_track(lib, extract_track_info(music_data[1]), w)),
              SubSeq(music_data, 2, Len(music_data)), w)

\* ------------------------------------------------------------ MusicScanner
\* What extract_track_info does with a file: "tags" (the tags are read),
\* "no_tags" (reading the tags raises inside the try block: the track keeps
\* the values taken from the file name), "raises" (extract_track_info
\* itself raises, e.g. at str(file_path).encode() for a name that has no
\* UTF-8 encoding, or at the import of mutagen).
FileKinds == {"tags", "no_tags", "raises"}

\* A music directory: whether the root exists, whether walking it raises
\* (p.is_file() or the traversal raising OSError), and its audio files.
MkDir(exists, walk, files) == [exists |-> exists, walk |-> walk, files |-> files]
EmptyDir == MkDir(TRUE, "ok", [f \in {} |-> "tags"])
Dirs ==
  {MkDir(FALSE, "ok", [f \in {} |-> "tags"])}
    \cup {MkDir(TRUE, walk, files) :
            walk \in {"ok", "raises"},
            files \in UNION {[S -> FileKinds] : S \in SUBSET FewIds}}

\* a traversal per extension on a file system that ignores case lists a
\* file under '*.mp3' and under '*.MP3'
rglob_per_extension(d) ==
  {s \o s : s \in {t \in Distinct(FewScanLists) : Range(t) = DOMAIN d.files}}

\* the lists root.rglob('*') may build from the audio files: every file
\* once, in the order of the traversal
rglob(d) == {s \in Distinct(FewScanLists) : Range(s) = DOMAIN d.files}

\* a MusicScanner thread: where run() is, all_files, the number of files
\* done and music_data (by id)
MkThread(pc, all_files, i, music_data) ==
  [pc |-> pc, all_files |-> all_files, i |-> i, music_data |-> music_data]
Idle == MkThread("idle", <<>>, 0, <<>>)
Started == MkThread("started", <<>>, 0, <<>>)
Scanners == {"startup", "refresh"}

scan_progress(i, total) == <<"scan_progress", i, total>>
scan_complete(music_data) == <<"scan_complete", music_data>>

\* the loop body with a file skipped whenever its tags cannot be read
run_file_skip_no_tags(music_data, file, kind) ==
  IF kind = "tags"
  THEN Append(music_data, extract_track_info(file).id)
  ELSE music_data

\* the body of the for loop of run() for one file: music_data afterwards
run_file(music_data, file, kind) ==
  IF kind # "raises"
  THEN Append(music_data, extract_track_info(file).id)
  ELSE music_data

\* the loop body reporting progress for the files it has read only
run_file_signals_on_success(i, total, kind) ==
  IF kind # "raises" THEN <<scan_progress(i + 1, total)>> ELSE <<>>

\* the signals the loop body emits for its file
run_file_signals(i, total, kind) == <<scan_progress(i + 1, total)>>

\* ------------------------------------------------------------ the player
\* Frames in each assets directory when there are any
AnimFrames == 2
\* single-shot timers that wait at one time
MaxTimers == 2

Player ==
  [animating |-> animating, anim_index |-> anim_index, queued_state |-> queued_state,
   is_playing |-> is_playing, audio |-> audio, timers |-> timers,
   btn_play_icon |-> btn_play_icon, on_finished_static |-> on_finished_static]

SetPlayer(p) ==
  /\ animating' = p.animating
  /\ anim_index' = p.anim_index
  /\ queued_state' = p.queued_state
  /\ is_playing' = p.is_playing
  /\ audio' = p.audio
  /\ timers' = p.timers
  /\ btn_play_icon' = p.btn_play_icon
  /\ on_finished_static' = p.on_finished_static
  /\ UNCHANGED <<assets, frames>>

\* MainWindow._animate_frames: no frames, an animation is running, or the
\* timer of a new animation is started
animate_frames(p, state) ==
  IF frames = 0 THEN [p EXCEPT !.btn_play_icon = state]
  ELSE IF p.animating THEN [p EXCEPT !.queued_state = state]
  ELSE [p EXCEPT !.animating = TRUE, !.anim_index = 0, !.on_finished_static = state,
                 !.btn_play_icon = "frame"]

\* MainWindow.animate_to_play
animate_to_play(p) ==
  IF p.animating THEN [p EXCEPT !.queued_state = "play"]
  ELSE animate_frames(p, "play")

\* MainWindow.animate_to_pause
animate_to_pause(p) ==
  IF p.animating THEN [p EXCEPT !.queued_state = "pause"]
  ELSE animate_frames(p, "pause")

\* MainWindow.play_track, as far as the engine and the button go
play_track_audio(p, should_animate) ==
  LET q == [p EXCEPT !.audio = "playing"]
      r == IF p.is_playing THEN q
           ELSE IF should_animate THEN animate_to_pause(q)
           ELSE [q EXCEPT !.btn_play_icon = "pause"]
  IN  [r EXCEPT !.is_playing = TRUE]

\* on_play_pause that executes the click at once while an animation is running
on_play_pause_unqueued(p) ==
  [animate_to_play([p EXCEPT !.audio = "paused"]) EXCEPT !.is_playing = FALSE]

\* the first branch of MainWindow.on_play_pause: an animation is running
on_play_pause_queued(p) ==
  [p EXCEPT !.queued_state = IF p.is_playing THEN "pause" ELSE "play"]

\* on_frame of _animate_frames, one timeout of _anim_timer
on_frame(p) ==
  IF p.anim_index >= frames
  THEN LET q == [p EXCEPT !.animating = FALSE, !.btn_play_icon = p.on_finished_static]
       IN  IF q.queued_state # None
           THEN [q EXCEPT !.queued_state = None, !.timers = Append(@, q.queued_state)]
           ELSE q
  ELSE [p EXCEPT !.anim_index = @ + 1, !.btn_play_icon = "frame"]

\* MainWindow._process_queued_state
process_queued_state(p, state) ==
  IF state = "play"
  THEN IF p.is_playing THEN p ELSE animate_to_play(p)
  ELSE IF ~p.is_playing THEN p ELSE animate_to_pause(p)

Init ==
  /\ saved = NoFile
  /\ tracks = load_library(NoFile).tracks
  /\ playlists = load_library(NoFile).playlists
  /\ scanner = "running"
  /\ btn_refresh = TRUE
  /\ current_playlist_name = RecentlyAdded
  /\ current_playlist = <<>>
  /\ current_track_index = -1
  /\ panel = update_playlist_panel(load_library(NoFile))
  /\ home_playlist = RecentlyAdded
  /\ cards = refresh_library(load_library(NoFile), RecentlyAdded)
  /\ page_playlists = get_default_playlists
  /\ dir = EmptyDir
  /\ threads = [startup |-> Started, refresh |-> Idle]
  /\ signals = [startup |-> <<>>, refresh |-> <<>>]
  /\ assets = 0
  /\ frames = 0
  /\ animating = FALSE
  /\ anim_index = 0
  /\ queued_state = None
  /\ is_playing = FALSE
  /\ audio = "stopped"
  /\ timers = <<>>
  /\ btn_play_icon = "play"
  /\ on_finished_static = None
  /\ color_cache = <<>>
  /\ last = Did("init", "", 0, TRUE)

\* ---------------------------------------------------------------- actions
\* MainWindow.on_scan_complete: the startup scan delivers its list
OnScanComplete(music_data, w) ==
  /\ scanner = "running"
  /\ LET lib == AddAll(Lib, music_data, w)
     IN  /\ SetLib(lib)
         /\ EmitLibraryUpdated(lib, home_playlist)
  /\ scanner' = "done"
  /\ threads' = [threads EXCEPT !.startup = Idle]
  /\ last' = Did("on_scan_complete", "", Len(music_data), TRUE)
  /\ UNCHANGED <<color_cache, dir, signals, playervars, btn_refresh, current_playlist_name, current_playlist,
                 current_track_index, home_playlist, page_playlists>>

\* refresh_library_and_playlists with a button that stays enabled
RefreshClicked_enabled ==
  /\ btn_refresh \in BOOLEAN
  /\ btn_refresh' = FALSE
  /\ threads' = [threads EXCEPT !.refresh = Started]
  /\ signals' = [signals EXCEPT !.refresh = <<>>]
  /\ last' = Did("refresh_library_and_playlists", "", 0, TRUE)
  /\ UNCHANGED <<color_cache, libvars, winvars, homevars, playervars, scanner, page_playlists, dir>>

\* MainWindow.refresh_library_and_playlists
RefreshClicked ==
  /\ btn_refresh
  /\ btn_refresh' = FALSE
  /\ threads' = [threads EXCEPT !.refresh = Started]
  /\ signals' = [signals EXCEPT !.refresh = <<>>]
  /\ last' = Did("refresh_library_and_playlists", "", 0, TRUE)
  /\ UNCHANGED <<color_cache, libvars, winvars, homevars, playervars, scanner, page_playlists, dir>>

\* MainWindow._on_refresh_complete
OnRefreshComplete(music_data, w) ==
  /\ ~btn_refresh
  /\ LET lib == AddAll(MkLib(<<>>, playlists, saved), music_data, w)
     IN  /\ SetLib(lib)
         /\ EmitLibraryUpdated(lib, home_playlist)
  /\ btn_refresh' = TRUE
  /\ threads' = [threads EXCEPT !.refresh = Idle]
  /\ last' = Did("_on_refresh_complete", "", Len(music_data), TRUE)
  /\ UNCHANGED <<color_cache, dir, signals, playervars, scanner, current_playlist_name, current_playlist,
                 current_track_index, home_playlist, page_playlists>>

\* MainWindow.add_music_files: every chosen file is copied to a path that
\* does not exist yet, so the ids of one call differ from each other.  last
\* keeps the file and what add_track returned when one file was chosen.
AddMusicFiles(files, w) ==
  /\ files # <<>>
  /\ LET lib == AddAll(Lib, files, w)
     IN  /\ SetLib(lib)
         /\ EmitLibraryUpdated(lib, home_playlist)
         /\ last' = IF Len(files) = 1
                    THEN Did("add_music_files", "", files[1],
                             add_track(Lib, extract_track_info(files[1]), w).ret)
                    ELSE Did("add_music_files", "", 0, TRUE)
  /\ UNCHANGED <<color_cache, scanvars, playervars, scanner, btn_refresh, current_playlist_name, current_playlist,
                 current_track_index, home_playlist, page_playlists>>

\* MainWindow.play_track, as far as the library goes:
\* self.library.increment_play_count(track['id'])
play_track(lib, id, now, w) == LibOf(increment_play_count(lib, id, now, w))

\* play counts are counted up to MaxPlays
CanCount(id) ==
  \A i \in DOMAIN tracks : tracks[i].id = id => tracks[i].play_count < MaxPlays

\* on_playlist_clicked that leaves current_track_index as it is
OnPlaylistClicked_keeps_index(name, now, w) ==
  LET trks == panel[name]
  IN  /\ name \in DOMAIN panel
      /\ current_playlist_name' = name
      /\ current_playlist' = trks
      /\ UNCHANGED current_track_index
      /\ home_playlist' = name
      /\ IF trks # <<>>
         THEN /\ CanCount(trks[1])
              /\ LET lib == play_track(Lib, trks[1], now, w)
                 IN  SetLib(lib) /\ EmitLibraryUpdated(lib, name)
              /\ SetPlayer(play_track_audio(Player, ~is_playing))
         ELSE /\ cards' = refresh_library(Lib, name)
              /\ UNCHANGED <<libvars, panel, playervars>>
      /\ last' = Did("on_playlist_clicked", name, IF trks # <<>> THEN trks[1] ELSE 0, TRUE)
      /\ UNCHANGED <<color_cache, scanvars, scanner, btn_refresh, page_playlists>>

\* MainWindow.on_playlist_clicked, for a PlaylistItem of the panel
OnPlaylistClicked(name, now, w) ==
  LET trks == panel[name]
  IN  /\ name \in DOMAIN panel
      /\ current_playlist_name' = name
      /\ current_playlist' = trks
      /\ current_track_index' = -1
      /\ home_playlist' = name
      /\ IF trks # <<>>
         THEN /\ CanCount(trks[1])
              /\ LET lib == play_track(Lib, trks[1], now, w)
                 IN  SetLib(lib) /\ EmitLibraryUpdated(lib, name)
              /\ SetPlayer(play_track_audio(Player, ~is_playing))
         ELSE /\ cards' = refresh_library(Lib, name)
              /\ UNCHANGED <<libvars, panel, playervars>>
      /\ last' = Did("on_playlist_clicked", name, IF trks # <<>> THEN trks[1] ELSE 0, TRUE)
      /\ UNCHANGED <<color_cache, scanvars, scanner, btn_refresh, page_playlists>>

\* position of the first track of current_playlist with this id (0-based)
IndexIn(cp, id) ==
  (CHOOSE j \in DOMAIN cp : cp[j] = id /\ \A k \in 1..(j - 1) : cp[k] # id) - 1

\* HomePage.play_song -> MainWindow.play_track_by_id, for a song card
PlaySong(id, now, w) ==
  /\ id \in cards
  /\ IF get_track_by_id(Lib, id)
     THEN /\ CanCount(id)
          /\ IF id \in Range(current_playlist)
             THEN /\ current_track_index' = IndexIn(current_playlist, id)
                  /\ UNCHANGED current_playlist
             ELSE /\ current_track_index' = Len(current_playlist)
                  /\ current_playlist' = Append(current_playlist, id)
          /\ LET lib == play_track(Lib, id, now, w)
             IN  SetLib(lib) /\ EmitLibraryUpdated(lib, home_playlist)
          /\ SetPlayer(play_track_audio(Player, ~is_playing))
     ELSE UNCHANGED <<libvars, current_playlist, current_track_index, panel, cards, playervars>>
  /\ last' = Did("play_track_by_id", "", id, get_track_by_id(Lib, id))
  /\ UNCHANGED <<color_cache, scanvars, scanner, btn_refresh, current_playlist_name, home_playlist, page_playlists>>

\* MainWindow.on_next (d = 1) and on_prev (d = -1) while no button
\* animation is running
Step(d, now, w) ==
  /\ ~animating
  /\ current_playlist # <<>>
  /\ LET idx == (current_track_index + d) % Len(current_playlist)
         id == current_playlist[idx + 1]
     IN  /\ CanCount(id)
         /\ current_track_index' = idx
         /\ LET lib == play_track(Lib, id, now, w)
            IN  SetLib(lib) /\ EmitLibraryUpdated(lib, home_playlist)
         /\ SetPlayer(play_track_audio(Player, ~is_playing))
         /\ last' = Did(IF d = 1 THEN "on_next" ELSE "on_prev", "", id, TRUE)
  /\ UNCHANGED <<color_cache, scanvars, scanner, btn_refresh, current_playlist_name, current_playlist,
                 home_playlist, page_playlists>>

OnNext(now, w) == Step(1, now, w)
OnPrev(now, w) == Step(-1, now, w)

\* HomePage.show_now_playing_menu offers the track actions only for a
\* current track
HasCurrentTrack ==
  /\ current_playlist # <<>>
  /\ current_track_index >= 0
  /\ current_track_index < Len(current_playlist)
CurrentTrack == current_playlist[current_track_index + 1]

\* HomePage.add_to_favorites, from the now-playing menu
AddToFavorites(w) ==
  /\ HasCurrentTrack
  /\ LET r == add_to_playlist(Lib, Favorites, CurrentTrack, w)
     IN  /\ SetLib(LibOf(r))
         /\ last' = Did("add_to_favorites", Favorites, CurrentTrack, r.ret)
  /\ UNCHANGED <<color_cache, scanvars, playervars, scanner, btn_refresh, winvars, homevars, page_playlists>>

\* HomePage.add_track_to_playlist: the dialog lists every playlist but the
\* one the home page shows
AddTrackToPlaylist(id, name, w) ==
  /\ id \in cards
  /\ name \in PlaylistNames(playlists) \ {home_playlist}
  /\ LET r == add_to_playlist(Lib, name, id, w)
     IN  /\ SetLib(LibOf(r))
         /\ last' = Did("add_track_to_playlist", name, id, r.ret)
  /\ UNCHANGED <<color_cache, scanvars, playervars, scanner, btn_refresh, winvars, homevars, page_playlists>>

\* HomePage.remove_track_from_playlist (the user answers Yes)
remove_track_from_playlist(id, via, w) ==
  LET r == remove_from_playlist(Lib, home_playlist, id, w)
  IN  /\ SetLib(LibOf(r))
      /\ cards' = IF r.ret THEN refresh_library(LibOf(r), home_playlist) ELSE cards
      /\ last' = Did(via, home_playlist, id, r.ret)
      /\ UNCHANGED <<color_cache, scanvars, playervars, scanner, btn_refresh, winvars, home_playlist, page_playlists>>

\* from the track context menu: the action is disabled on a system playlist
RemoveFromContextMenu(id, w) ==
  /\ id \in cards
  /\ home_playlist \notin SystemPlaylists
  /\ remove_track_from_playlist(id, "context_menu_remove", w)

\* from the now-playing menu
RemoveFromNowPlayingMenu(w) ==
  /\ HasCurrentTrack
  /\ remove_track_from_playlist(CurrentTrack, "now_playing_remove", w)

\* for playlist_name in list(self.library.playlists.keys()):
\*     self.library.remove_from_playlist(playlist_name, track['id'])
RECURSIVE RemoveFromAll(_, _, _, _)
RemoveFromAll(lib, names, id, w) ==
  IF names = {} THEN lib
  ELSE LET n == CHOOSE x \in names : TRUE
       IN  RemoveFromAll(LibOf(remove_from_playlist(lib, n, id, w)), names \ {n}, id, w)

\* delete_track_from_library without the loop over the playlists
delete_track_from_library_unswept(lib, id, w) ==
  save_library(MkLib(SelectSeq(lib.tracks, LAMBDA t : t.id # id), lib.playlists, lib.saved), w)

\* HomePage.delete_track_from_library after the user answers Yes
delete_track_from_library(lib, id, w) ==
  LET swept == RemoveFromAll(lib, DOMAIN lib.playlists, id, w)
      kept == SelectSeq(swept.tracks, LAMBDA t : t.id # id)
  IN  save_library(MkLib(kept, swept.playlists, swept.saved), w)

DeleteTrackFromLibrary(id, w) ==
  /\ id \in cards
  /\ LET lib == delete_track_from_library(Lib, id, w)
     IN  /\ SetLib(lib)
         /\ cards' = refresh_library(lib, home_playlist)
  /\ last' = Did("delete_track_from_library", "", id, TRUE)
  /\ UNCHANGED <<color_cache, scanvars, playervars, scanner, btn_refresh, winvars, home_playlist, page_playlists>>

\* MainWindow.create_new_playlist
CreateNewPlaylist(name, w) ==
  /\ LET r == create_playlist(Lib, name, w)
     IN  /\ SetLib(LibOf(r))
         /\ IF r.ret THEN EmitLibraryUpdated(LibOf(r), home_playlist)
                     ELSE UNCHANGED <<cards, panel>>
         /\ last' = Did("create_new_playlist", name, 0, r.ret)
  /\ UNCHANGED <<color_cache, scanvars, playervars, scanner, btn_refresh, current_playlist_name, current_playlist,
                 current_track_index, home_playlist, page_playlists>>

\* MainWindow.rename_current_playlist
RenameCurrentPlaylist(new_name, w) ==
  /\ current_playlist_name # ""
  /\ new_name # current_playlist_name
  /\ IF current_playlist_name \in {Favorites, RecentlyAdded, MostPlayed}
     THEN /\ last' = Did("rename_current_playlist", current_playlist_name, 0, FALSE)
          /\ UNCHANGED <<libvars, winvars, cards>>
     ELSE LET r == rename_playlist(Lib, current_playlist_name, new_name, w)
          IN  /\ SetLib(LibOf(r))
              /\ IF r.ret
                 THEN /\ current_playlist_name' = new_name
                      /\ EmitLibraryUpdated(LibOf(r), home_playlist)
                 ELSE UNCHANGED <<current_playlist_name, cards, panel>>
              /\ last' = Did("rename_current_playlist", current_playlist_name, 0, r.ret)
              /\ UNCHANGED <<current_playlist, current_track_index>>
  /\ UNCHANGED <<color_cache, scanvars, playervars, scanner, btn_refresh, home_playlist, page_playlists>>

\* MainWindow.delete_current_playlist (the user answers Yes)
DeleteCurrentPlaylist(w) ==
  /\ current_playlist_name # ""
  /\ IF current_playlist_name \in {Favorites, RecentlyAdded, MostPlayed}
     THEN /\ last' = Did("delete_current_playlist", current_playlist_name, 0, FALSE)
          /\ UNCHANGED <<libvars, winvars, cards>>
     ELSE LET r == delete_playlist(Lib, current_playlist_name, w)
          IN  /\ SetLib(LibOf(r))
              /\ IF r.ret
                 THEN /\ current_playlist_name' = ""
                      /\ current_playlist' = <<>>
                      /\ EmitLibraryUpdated(LibOf(r), home_playlist)
                 ELSE UNCHANGED <<current_playlist_name, current_playlist, cards, panel>>
              /\ last' = Did("delete_current_playlist", current_playlist_name, 0, r.ret)
              /\ UNCHANGED current_track_index
  /\ UNCHANGED <<color_cache, scanvars, playervars, scanner, btn_refresh, home_playlist, page_playlists>>

\* Playlist.create_new_playlist (playlist page); names are compared
\* case-insensitively, and the names used here differ in more than case
PageCreatePlaylist(name, w) ==
  /\ name \notin page_playlists
  /\ page_playlists' = page_playlists \cup {name}
  /\ LET r == create_playlist(Lib, name, w)
     IN  /\ SetLib(LibOf(r))
         /\ last' = Did("page_create_new_playlist", name, 0, r.ret)
  /\ UNCHANGED <<color_cache, scanvars, playervars, scanner, btn_refresh, winvars, homevars>>

\* Playlist.rename_playlist (playlist page)
PageRenamePlaylist(old_name, new_name, w) ==
  /\ old_name \in page_playlists
  /\ new_name \notin page_playlists \ {old_name}
  /\ page_playlists' = (page_playlists \ {old_name}) \cup {new_name}
  /\ LET r == rename_playlist(Lib, old_name, new_name, w)
     IN  /\ SetLib(LibOf(r))
         /\ last' = Did("page_rename_playlist", old_name, 0, r.ret)
  /\ UNCHANGED <<color_cache, scanvars, playervars, scanner, btn_refresh, winvars, homevars>>

\* Playlist.delete_playlist (playlist page, the user answers Yes)
PageDeletePlaylist(name, w) ==
  /\ name \in page_playlists
  /\ page_playlists' = page_playlists \ {name}
  /\ LET r == delete_playlist(Lib, name, w)
     IN  /\ SetLib(LibOf(r))
         /\ last' = Did("page_delete_playlist", name, 0, r.ret)
  /\ UNCHANGED <<color_cache, scanvars, playervars, scanner, btn_refresh, winvars, homevars>>

\* Playlist.on_playlist_clicked -> HomePage.on_playlist_changed
PagePlaylistClicked(name) ==
  /\ name \in page_playlists
  /\ home_playlist' = name
  /\ cards' = refresh_library(Lib, name)
  /\ last' = Did("page_on_playlist_clicked", name, 0, TRUE)
  /\ UNCHANGED <<color_cache, libvars, scanvars, playervars, scanner, btn_refresh, winvars, page_playlists>>

\* the application is closed and started again: MusicLibrary.__init__,
\* MainWindow.__init__, HomePage.__init__, Playlist.__init__
Restart ==
  /\ LET lib == load_library(saved)
     IN  /\ SetLib(lib)
         /\ panel' = update_playlist_panel(lib)
         /\ cards' = refresh_library(lib, RecentlyAdded)
  /\ scanner' = "running"
  /\ btn_refresh' = TRUE
  /\ current_playlist_name' = RecentlyAdded
  /\ current_playlist' = <<>>
  /\ current_track_index' = -1
  /\ home_playlist' = RecentlyAdded
  /\ threads' = [startup |-> Started, refresh |-> Idle]
  /\ signals' = [startup |-> <<>>, refresh |-> <<>>]
  /\ frames' = assets
  /\ animating' = FALSE
  /\ anim_index' = 0
  /\ queued_state' = None
  /\ is_playing' = FALSE
  /\ audio' = "stopped"
  /\ timers' = <<>>
  /\ btn_play_icon' = "play"
  /\ on_finished_static' = None
  /\ color_cache' = <<>>
  /\ last' = Did("restart", "", 0, TRUE)
  /\ UNCHANGED <<page_playlists, dir, assets>>

\* frame images are put into or taken out of the assets directories; the
\* application loads them when it starts
ChangeAssets(n) ==
  /\ n # assets
  /\ assets' = n
  /\ last' = Did("change_assets", "", n, TRUE)
  /\ UNCHANGED <<color_cache, libvars, winvars, homevars, scanvars, scanner, btn_refresh, page_playlists,
                 frames, animating, anim_index, queued_state, is_playing, audio, timers,
                 btn_play_icon, on_finished_static>>

\* MainWindow.on_play_pause.  last.name keeps the branch taken.
OnPlayPause(now, w) ==
  /\ IF animating
     THEN /\ SetPlayer(on_play_pause_queued(Player))
          /\ last' = Did("on_play_pause", "queued", 0, TRUE)
          /\ UNCHANGED <<libvars, current_track_index, panel, cards>>
     ELSE IF is_playing
     THEN /\ SetPlayer([animate_to_play([Player EXCEPT !.audio = "paused"])
                          EXCEPT !.is_playing = FALSE])
          /\ last' = Did("on_play_pause", "pause", 0, TRUE)
          /\ UNCHANGED <<libvars, current_track_index, panel, cards>>
     ELSE IF current_playlist # <<>>
     THEN LET idx == IF current_track_index >= 0 THEN current_track_index ELSE 0
          IN  IF idx < Len(current_playlist)
              THEN LET id == current_playlist[idx + 1]
                   IN  /\ CanCount(id)
                       /\ current_track_index' = idx
                       /\ LET lib == play_track(Lib, id, now, w)
                          IN  SetLib(lib) /\ EmitLibraryUpdated(lib, home_playlist)
                       /\ SetPlayer(play_track_audio(Player, ~is_playing))
                       /\ last' = Did("on_play_pause", "play", id, TRUE)
              ELSE /\ last' = Did("on_play_pause", "raised", 0, FALSE)
                   /\ UNCHANGED <<libvars, current_track_index, panel, cards, playervars>>
     ELSE /\ last' = Did("on_play_pause", "empty", 0, TRUE)
          /\ UNCHANGED <<libvars, current_track_index, panel, cards, playervars>>
  /\ UNCHANGED <<color_cache, scanvars, scanner, btn_refresh, current_playlist_name, current_playlist,
                 home_playlist, page_playlists>>

\* one timeout of _anim_timer.  last.name keeps _queued_state as the
\* timeout found it, last.ret whether the animation ended.
AnimFrame ==
  /\ animating
  /\ Len(timers) < MaxTimers
  /\ SetPlayer(on_frame(Player))
  /\ last' = Did("on_frame", queued_state, anim_index, anim_index >= frames)
  /\ UNCHANGED <<color_cache, libvars, winvars, homevars, scanvars, scanner, btn_refresh, page_playlists>>

\* QTimer.singleShot(30, lambda: self._process_queued_state(queued))
ProcessQueuedState ==
  /\ timers # <<>>
  /\ SetPlayer(process_queued_state([Player EXCEPT !.timers = Tail(@)], Head(timers)))
  /\ last' = Did("_process_queued_state", Head(timers), 0, TRUE)
  /\ UNCHANGED <<color_cache, libvars, winvars, homevars, scanvars, scanner, btn_refresh, page_playlists>>

\* MainWindow.on_playback_state_changed_wrapper: the engine reports the
\* state it is in
OnPlaybackStateChanged ==
  /\ is_playing' = (audio = "playing")
  /\ btn_play_icon' = IF animating THEN btn_play_icon
                      ELSE IF audio = "playing" THEN "pause" ELSE "play"
  /\ last' = Did("on_playback_state_changed_wrapper", audio, 0, TRUE)
  /\ UNCHANGED <<color_cache, libvars, winvars, homevars, scanvars, scanner, btn_refresh, page_playlists,
                 assets, frames, animating, anim_index, queued_state, audio, timers,
                 on_finished_static>>

\* The track that plays ends: the engine emits end_of_media, connected to
\* MainWindow._on_end_of_media.  The slot calls itself until Python raises
\* RecursionError, which leaves the slot; on_next_auto is never called.
EndOfMedia ==
  /\ audio = "playing"
  /\ audio' = "stopped"
  /\ last' = Did("_on_end_of_media", "", 0, FALSE)
  /\ UNCHANGED <<color_cache, libvars, winvars, homevars, scanvars, scanner, btn_refresh, page_playlists,
                 assets, frames, animating, anim_index, queued_state, is_playing, timers,
                 btn_play_icon, on_finished_static>>

\* ------------------------------------------------------------ color_model
\* largest num_colors asked for
MaxColors == 3
\* len(DEFAULT_PALETTE)
DefaultPaletteLen == 6

\* The images: what load_and_preprocess_image and extract_color_candidates
\* make of each path.  "" is refused by validate_image_path, "broken.jpg"
\* cannot be loaded, the others give this many vibrant candidates.
ImagePaths == {"", "broken.jpg", "grey.jpg", "one.jpg", "vivid.jpg"}
Candidates(image_path) ==
  CASE image_path = "grey.jpg" -> 0
    [] image_path = "one.jpg" -> 1
    [] image_path = "vivid.jpg" -> MaxColors + 1
    [] OTHER -> -1

\* DEFAULT_PALETTE[i], 0-based
DEFAULT_PALETTE(i) == <<"default", i>>

\* the candidates of the image, most vibrant first
extract_color_candidates(image_path) ==
  [j \in 1..Candidates(image_path) |-> <<image_path, j>>]

\* pad_color_palette
RECURSIVE pad_color_palette(_, _)
pad_color_palette(colors, target_size) ==
  IF Len(colors) < target_size
  THEN pad_color_palette(Append(colors, DEFAULT_PALETTE(Len(colors) % DefaultPaletteLen)),
                         target_size)
  ELSE Take(colors, target_size)

\* extract_dominant_colors, a path that is in color_cache
cached_colors(cache, image_path, num_colors) ==
  Take(cache[image_path], num_colors)

\* extract_dominant_colors, a path that is not in color_cache: the list it
\* returns and puts into the cache
fresh_colors(image_path, num_colors) ==
  IF Candidates(image_path) < 0
  THEN pad_color_palette(<<>>, num_colors)
  ELSE pad_color_palette(Take(extract_color_candidates(image_path), num_colors), num_colors)

\* extract_dominant_colors(image_path, num_colors).  last keeps the
\* arguments and the list returned.
ExtractDominantColors(image_path, num_colors) ==
  /\ IF image_path \in DOMAIN color_cache
     THEN /\ last' = Did("extract_dominant_colors", image_path, num_colors,
                         cached_colors(color_cache, image_path, num_colors))
          /\ UNCHANGED color_cache
     ELSE LET colors == fresh_colors(image_path, num_colors)
          IN  /\ color_cache' = (image_path :> colors) @@ color_cache
              /\ last' = Did("extract_dominant_colors", image_path, num_colors, colors)
  /\ UNCHANGED <<libvars, winvars, homevars, scanvars, playervars, scanner, btn_refresh,
                 page_playlists>>

\* clear_color_cache
ClearColorCache ==
  /\ color_cache # <<>>
  /\ color_cache' = <<>>
  /\ last' = Did("clear_color_cache", "", 0, TRUE)
  /\ UNCHANGED <<libvars, winvars, homevars, scanvars, playervars, scanner, btn_refresh,
                 page_playlists>>

\* ------------------------------------------------------ the scanner threads
\* files are copied into, changed in or removed from the music directory
\* while no scanner is between its walk and the delivery of its list
ChangeDirectory(d) ==
  /\ \A who \in Scanners : threads[who].pc \in {"idle", "started", "raised"}
  /\ d # dir
  /\ dir' = d
  /\ last' = Did("change_directory", "", 0, TRUE)
  /\ UNCHANGED <<color_cache, libvars, winvars, homevars, playervars, scanner, btn_refresh, page_playlists,
                 threads, signals>>

\* MusicScanner.run up to scan_progress.emit(0, total): the root is
\* missing, the walk raises (nothing catches it: run() ends without a
\* signal), or all_files is built
ScannerWalk(who) ==
  /\ threads[who].pc = "started"
  /\ IF ~dir.exists
     THEN /\ threads' = [threads EXCEPT ![who] = MkThread("done", <<>>, 0, <<>>)]
          /\ signals' = [signals EXCEPT ![who] = Append(@, scan_complete(<<>>))]
     ELSE IF dir.walk = "raises"
     THEN /\ threads' = [threads EXCEPT ![who] = MkThread("raised", <<>>, 0, <<>>)]
          /\ UNCHANGED signals
     ELSE \E all_files \in rglob(dir) :
            /\ threads' = [threads EXCEPT ![who] = MkThread("scanning", all_files, 0, <<>>)]
            /\ signals' = [signals EXCEPT ![who] = Append(@, scan_progress(0, Len(all_files)))]
  /\ last' = Did("MusicScanner.run", who, 0, TRUE)
  /\ UNCHANGED <<color_cache, libvars, winvars, homevars, playervars, scanner, btn_refresh, page_playlists, dir>>

\* one turn of the for loop of run()
ScannerFile(who) ==
  LET th == threads[who]
      total == Len(th.all_files)
  IN  /\ th.pc = "scanning"
      /\ th.i < total
      /\ LET file == th.all_files[th.i + 1]
             kind == dir.files[file]
         IN  /\ threads' = [threads EXCEPT ![who] =
                   MkThread("scanning", th.all_files, th.i + 1,
                            run_file(th.music_data, file, kind))]
             /\ signals' = [signals EXCEPT ![who] = @ \o run_file_signals(th.i, total, kind)]
             /\ last' = Did("MusicScanner.run", who, file, kind # "raises")
      /\ UNCHANGED <<color_cache, libvars, winvars, homevars, playervars, scanner, btn_refresh, page_playlists, dir>>

\* self.scan_complete.emit(music_data)
ScannerComplete(who) ==
  LET th == threads[who]
  IN  /\ th.pc = "scanning"
      /\ th.i = Len(th.all_files)
      /\ threads' = [threads EXCEPT ![who] = MkThread("done", th.all_files, th.i, th.music_data)]
      /\ signals' = [signals EXCEPT ![who] = Append(@, scan_complete(th.music_data))]
      /\ last' = Did("MusicScanner.run", who, 0, TRUE)
      /\ UNCHANGED <<color_cache, libvars, winvars, homevars, playervars, scanner, btn_refresh, page_playlists, dir>>

\* the queued scan_complete of the startup scanner reaches the UI thread
StartupScanDelivered ==
  /\ threads.startup.pc = "done"
  /\ OnScanComplete(threads.startup.music_data, "ok")

\* the queued scan_complete of the refresh scanner reaches the UI thread
RefreshScanDelivered ==
  /\ threads.refresh.pc = "done"
  /\ OnRefreshComplete(threads.refresh.music_data, "ok")

\* refresh_library_and_playlists keeps its scanner in a local variable
\* only: the QThread object is destroyed when the handler returns, and Qt
\* aborts the process if the thread is still running.  The application is
\* then started again.
RefreshScannerDestroyed ==
  /\ threads.refresh.pc \in {"started", "scanning"}
  /\ Restart


\* Spec: the tracks of the library and its file.  The startup scan, the
\* refresh, added files, plays from the home page, deleted tracks, and the
\* application closed and started again.
Next ==
  \/ \E music_data \in FewScanLists : OnScanComplete(music_data, "ok")
  \/ RefreshClicked
  \/ \E music_data \in FewScanLists : OnRefreshComplete(music_data, "ok")
  \/ \E files \in Distinct(FewScanLists) : AddMusicFiles(files, "ok")
  \/ \E id \in FewIds, now \in Times : PlaySong(id, now, "ok")
  \/ \E id \in FewIds : DeleteTrackFromLibrary(id, "ok")
  \/ Restart

Spec == Init /\ [][Next]_vars

\* SpecRecent: the length of Recently Added.  The home page shows Recently
\* Added or, after a click on the playlist page, every track; tracks are
\* added to Recently Added from the home page's dialog.
NextRecent ==
  \/ \E music_data \in Distinct(ScanLists) : OnScanComplete(music_data, "ok")
  \/ \E files \in DistinctLists : AddMusicFiles(files, "ok")
  \/ \E id \in Ids : DeleteTrackFromLibrary(id, "ok")
  \/ PagePlaylistClicked("Workout Mix")
  \/ \E id \in Ids : AddTrackToPlaylist(id, RecentlyAdded, "ok")

SpecRecent == Init /\ [][NextRecent]_vars

\* SpecLists: the contents of the playlists.  Tracks come and go; tracks are
\* added to and removed from playlists.
NextLists ==
  \/ \E music_data \in FewScanLists : OnScanComplete(music_data, "ok")
  \/ RefreshClicked
  \/ \E music_data \in FewScanLists : OnRefreshComplete(music_data, "ok")
  \/ \E files \in Distinct(FewScanLists) : AddMusicFiles(files, "ok")
  \/ \E id \in FewIds, now \in Times : PlaySong(id, now, "ok")
  \/ \E id \in FewIds : DeleteTrackFromLibrary(id, "ok")
  \/ \E id \in FewIds : AddTrackToPlaylist(id, Favorites, "ok")
  \/ AddToFavorites("ok")
  \/ RemoveFromNowPlayingMenu("ok")

SpecLists == Init /\ [][NextLists]_vars

\* SpecNames: the names of the playlists.  Playlists are created, renamed
\* and deleted from the main window and from the playlist page; the names
\* typed into the dialogs are a protected name and a name of the user's.
TypedNames == {Favorites} \cup UserNames

NextNames ==
  \/ \E music_data \in Distinct(FewScanLists) : OnScanComplete(music_data, "ok")
  \/ \E name \in Names, now \in Times : OnPlaylistClicked(name, now, "ok")
  \/ \E name \in TypedNames : CreateNewPlaylist(name, "ok")
  \/ \E name \in TypedNames : RenameCurrentPlaylist(name, "ok")
  \/ DeleteCurrentPlaylist("ok")
  \/ \E name \in TypedNames : PageCreatePlaylist(name, "ok")
  \/ \E old_name \in TypedNames, new_name \in TypedNames :
        PageRenamePlaylist(old_name, new_name, "ok")
  \/ \E name \in TypedNames : PageDeletePlaylist(name, "ok")

SpecNames == Init /\ [][NextNames]_vars

\* SpecPlay: play counts.  Tracks are played from the side panel, from the
\* home page and with the next and previous buttons.
NextPlay ==
  \/ \E music_data \in Distinct(ScanLists) : OnScanComplete(music_data, "ok")
  \/ \E name \in Names, now \in Times : OnPlaylistClicked(name, now, "ok")
  \/ \E id \in Ids, now \in Times : PlaySong(id, now, "ok")
  \/ \E now \in Times : OnNext(now, "ok")
  \/ \E now \in Times : OnPrev(now, "ok")
  \/ \E id \in Ids : DeleteTrackFromLibrary(id, "ok")
  \/ PagePlaylistClicked("Workout Mix")

SpecPlay == Init /\ [][NextPlay]_vars

\* SpecPlayer: the play button, its animation and the engine.  The
\* application is started with and without frame images; tracks are played
\* from the home page, with the play button and the next button; the
\* animation timer, the single-shot timers and the engine run.
NextPlayer ==
  \/ \E n \in {0, AnimFrames} : ChangeAssets(n)
  \/ Restart
  \/ \E music_data \in Distinct(FewScanLists) : OnScanComplete(music_data, "ok")
  \/ \E id \in FewIds, now \in Times : PlaySong(id, now, "ok")
  \/ \E now \in Times : OnPlayPause(now, "ok")
  \/ \E now \in Times : OnNext(now, "ok")
  \/ AnimFrame
  \/ ProcessQueuedState
  \/ OnPlaybackStateChanged
  \/ EndOfMedia

SpecPlayer == Init /\ [][NextPlayer]_vars

\* SpecColors: calls of extract_dominant_colors for any path and any
\* number of colors, with the cache cleared now and then.
NextColors ==
  \/ \E image_path \in ImagePaths, num_colors \in 1..MaxColors :
       ExtractDominantColors(image_path, num_colors)
  \/ ClearColorCache

SpecColors == Init /\ [][NextColors]_vars

\* SpecIndex: current_playlist and current_track_index.  A playlist of the
\* user is created, filled and deleted; tracks are started from the side
\* panel, from the home page and with the three buttons.
NextIndex ==
  \/ \E music_data \in Distinct(ScanLists) : OnScanComplete(music_data, "ok")
  \/ \E name \in UserNames : CreateNewPlaylist(name, "ok")
  \/ \E id \in Ids, name \in UserNames : AddTrackToPlaylist(id, name, "ok")
  \/ \E name \in Names, now \in Times : OnPlaylistClicked(name, now, "ok")
  \/ \E id \in Ids, now \in Times : PlaySong(id, now, "ok")
  \/ \E now \in Times : OnNext(now, "ok")
  \/ \E now \in Times : OnPrev(now, "ok")
  \/ \E now \in Times : OnPlayPause(now, "ok")
  \/ DeleteCurrentPlaylist("ok")

SpecIndex == Init /\ [][NextIndex]_vars

\* SpecSave: writes of music_library.json that fail.  Every write of a
\* handler ends well, fails at open() or fails after open(); the
\* application is closed and started again.
NextSave ==
  \/ \E music_data \in Distinct(FewScanLists), w \in WriteOutcomes :
        OnScanComplete(music_data, w)
  \/ \E files \in Distinct(FewScanLists), w \in WriteOutcomes : AddMusicFiles(files, w)
  \/ \E name \in UserNames, w \in WriteOutcomes : CreateNewPlaylist(name, w)
  \/ \E id \in FewIds, now \in Times, w \in WriteOutcomes : PlaySong(id, now, w)
  \/ Restart

SpecSave == Init /\ [][NextSave]_vars

\* SpecScan: the scanner threads.  The music directory changes, the startup
\* scanner and the scanner of a refresh walk it file by file, and their
\* lists are delivered to the UI thread.
NextScan ==
  \/ \E d \in Dirs : ChangeDirectory(d)
  \/ RefreshClicked
  \/ \E who \in Scanners : ScannerWalk(who)
  \/ \E who \in Scanners : ScannerFile(who)
  \/ \E who \in Scanners : ScannerComplete(who)
  \/ StartupScanDelivered
  \/ RefreshScanDelivered
  \/ RefreshScannerDestroyed

SpecScan == Init /\ [][NextScan]_vars

\* SpecThreads: as SpecScan, with operations of the UI thread on the
\* library while the scanner threads run: files are added, tracks deleted.
NextThreads ==
  \/ NextScan
  \/ \E files \in Distinct(FewScanLists) : AddMusicFiles(files, "ok")
  \/ \E id \in FewIds : DeleteTrackFromLibrary(id, "ok")

SpecThreads == Init /\ [][NextThreads]_vars

\* SpecScanFair: as SpecScan, where a scanner thread that can take a step
\* takes it and a queued signal is delivered: the threads are scheduled and
\* the event loop of the UI thread runs.
ScanFairness ==
  /\ \A who \in Scanners :
       /\ WF_vars(ScannerWalk(who))
       /\ WF_vars(ScannerFile(who))
       /\ WF_vars(ScannerComplete(who))
  /\ WF_vars(StartupScanDelivered)
  /\ WF_vars(RefreshScanDelivered)

SpecScanFair == Init /\ [][NextScan]_vars /\ ScanFairness

\* ------------------------------------------------------------- properties
\* play_count of the track with this id
PlayCountOf(tr, id) == tr[CHOOSE i \in DOMAIN tr : tr[i].id = id].play_count

\* C1: add_track of a track whose id is already in tracks returns False and
\* leaves tracks, every playlist and the saved file as they are, so the id
\* keeps exactly one entry.  Stated of the method on every reachable library
\* and of the add_music_files step that adds one file with a known id.
AddTrackIdempotent ==
  [][/\ \A k \in existing_ids(tracks) :
          add_track(Lib, extract_track_info(k), "ok") = WithRet(Lib, FALSE)
     /\ (last'.op = "add_music_files" /\ last'.id \in existing_ids(tracks))
          => /\ last'.ret = FALSE
             /\ UNCHANGED libvars
             /\ Cardinality({i \in DOMAIN tracks' : tracks'[i].id = last'.id}) = 1]_vars

AddTrackIdempotentWitness ==
  /\ last.op = "add_music_files"
  /\ last.ret = FALSE
  /\ last.id \in existing_ids(tracks)

\* C2: no two tracks of the library have the same id, in every state the
\* scans, the refresh, added files, deleted tracks and plays lead to, scan
\* lists that repeat an id included.
UniqueIds ==
  \A i, j \in DOMAIN tracks : i # j => tracks[i].id # tracks[j].id

\* a refresh whose list was longer than the library it left
UniqueIdsWitness ==
  /\ last.op = "_on_refresh_complete"
  /\ last.id > Len(tracks)
  /\ Len(tracks) >= 1

\* C3: delete_playlist of Favorites, Recently Added or Most Played returns
\* False and changes nothing; delete_playlist of another existing name
\* returns True and removes that key and nothing else.  Stated of the method
\* on every reachable library and of the two handlers that delete.
DeleteOps == {"delete_current_playlist", "page_delete_playlist"}

DeleteProtected ==
  [][/\ \A name \in SystemPlaylists :
          delete_playlist(Lib, name, "ok") = WithRet(Lib, FALSE)
     /\ \A name \in DOMAIN playlists \ SystemPlaylists :
          LET r == delete_playlist(Lib, name, "ok")
          IN  /\ r.ret = TRUE
              /\ r.tracks = tracks
              /\ r.playlists = [n \in DOMAIN playlists \ {name} |-> playlists[n]]
     /\ last'.op \in DeleteOps
          => IF last'.name \in SystemPlaylists \/ last'.name \notin DOMAIN playlists
             THEN last'.ret = FALSE /\ UNCHANGED libvars
             ELSE /\ last'.ret = TRUE
                  /\ tracks' = tracks
                  /\ playlists' = [n \in DOMAIN playlists \ {last'.name} |-> playlists[n]]]_vars

\* the playlist page has asked the library to delete a protected playlist
DeleteProtectedWitness ==
  /\ last.op = "page_delete_playlist"
  /\ last.name \in SystemPlaylists
  /\ last.ret = FALSE
  /\ last.name \in DOMAIN playlists

\* C4: a rename whose old name is Favorites, Recently Added or Most Played
\* is rejected and leaves the playlists as they are, whether asked of
\* rename_playlist itself, of the main window or of the playlist page.
RenameOps == {"rename_current_playlist", "page_rename_playlist"}

RenameProtected ==
  [][/\ \A old_name \in SystemPlaylists, new_name \in Names :
          rename_playlist(Lib, old_name, new_name, "ok") = WithRet(Lib, FALSE)
     /\ (last'.op \in RenameOps /\ last'.name \in SystemPlaylists)
          => (last'.ret = FALSE /\ playlists' = playlists)]_vars

\* the same, of the two handlers only
RenameProtectedByHandlers ==
  [][(last'.op \in RenameOps /\ last'.name \in SystemPlaylists)
       => (last'.ret = FALSE /\ playlists' = playlists)]_vars

\* C5: increment_play_count of an id in tracks adds 1 to that track's
\* play_count, sets its last_played, leaves every other track as it was and
\* leaves Most Played sorted by descending play_count with at most
\* MostPlayedCap entries; of an id not in tracks it changes nothing.
PlayOps == {"on_playlist_clicked", "play_track_by_id", "on_next", "on_prev"}

SortedByCount(tr, mp) ==
  \A a, b \in DOMAIN mp : a < b => PlayCountOf(tr, mp[a]) >= PlayCountOf(tr, mp[b])

IncrementPlayCount ==
  [][/\ \A id \in Ids \ existing_ids(tracks), now \in Times :
          increment_play_count(Lib, id, now, "ok") = WithRet(Lib, FALSE)
     /\ last'.op \in PlayOps
          => IF last'.id \in existing_ids(tracks)
             THEN /\ Len(tracks') = Len(tracks)
                  /\ \A i \in DOMAIN tracks :
                       IF tracks[i].id = last'.id
                       THEN /\ tracks'[i].id = tracks[i].id
                            /\ tracks'[i].play_count = tracks[i].play_count + 1
                            /\ tracks'[i].last_played \in Times
                       ELSE tracks'[i] = tracks[i]
                  /\ LET mp == playlists'[MostPlayed]
                     IN  /\ Len(mp) <= MostPlayedCap
                         /\ Range(mp) \subseteq existing_ids(tracks')
                         /\ SortedByCount(tracks', mp)
             ELSE UNCHANGED libvars]_vars

\* a play after which more tracks have been played than Most Played holds,
\* and the counts in Most Played differ
IncrementPlayCountWitness ==
  /\ last.op \in PlayOps
  /\ last.id \in existing_ids(tracks)
  /\ Cardinality({i \in DOMAIN tracks : tracks[i].play_count > 0}) > MostPlayedCap
  /\ Len(playlists[MostPlayed]) = MostPlayedCap
  /\ PlayCountOf(tracks, playlists[MostPlayed][1])
       > PlayCountOf(tracks, playlists[MostPlayed][MostPlayedCap])

\* C6: after add_track has added a track, its id is the first entry of
\* Recently Added, the entries the list had follow in their order, and the
\* list is cut to its first RecentCap entries.  Stated of the method on
\* every reachable library and of the add_music_files step that adds one
\* new file.
Prepended(old, id, new) ==
  /\ Len(new) = (IF Len(old) + 1 > RecentCap THEN RecentCap ELSE Len(old) + 1)
  /\ new[1] = id
  /\ \A j \in 2..Len(new) : new[j] = old[j - 1]

RecentlyAddedFirst ==
  [][/\ \A k \in Ids \ existing_ids(tracks) :
          LET r == add_track(Lib, extract_track_info(k), "ok")
          IN  r.ret = TRUE /\ Prepended(playlists[RecentlyAdded], k, r.playlists[RecentlyAdded])
     /\ (last'.op = "add_music_files" /\ last'.id # 0 /\ last'.ret = TRUE)
          => Prepended(playlists[RecentlyAdded], last'.id, playlists'[RecentlyAdded])]_vars

\* a file added to a full Recently Added
RecentlyAddedFirstWitness ==
  /\ last.op = "add_music_files"
  /\ last.id # 0
  /\ last.ret = TRUE
  /\ Len(tracks) > RecentCap
  /\ Len(playlists[RecentlyAdded]) = RecentCap
  /\ playlists[RecentlyAdded][1] = last.id
  /\ playlists[RecentlyAdded][2] # last.id

\* C7: Recently Added never holds more than RecentCap ids.
RecentlyAddedCapped ==
  RecentlyAdded \in DOMAIN playlists => Len(playlists[RecentlyAdded]) <= RecentCap

\* C8: every id of every playlist is the id of a track of the library.
NoDangling ==
  \A n \in DOMAIN playlists : Range(playlists[n]) \subseteq existing_ids(tracks)

NoRepeats ==
  \A n \in DOMAIN playlists :
    \A a, b \in DOMAIN playlists[n] : a # b => playlists[n][a] # playlists[n][b]

AddOps == {"add_to_favorites", "add_track_to_playlist"}

\* C8, as the code has it: where every id of every playlist is the id of a
\* track and no playlist repeats an id, every handler keeps both, except the
\* refresh and except adding an id that is no longer in tracks.
NoDanglingKept ==
  [][(/\ NoDangling
      /\ NoRepeats
      /\ last'.op # "_on_refresh_complete"
      /\ ~(last'.op \in AddOps /\ last'.id \notin existing_ids(tracks)))
       => (NoDangling' /\ NoRepeats')]_vars

\* a track that was in a playlist has been deleted
NoDanglingKeptWitness ==
  /\ last.op = "delete_track_from_library"
  /\ last.id \notin existing_ids(tracks)
  /\ tracks # <<>>
  /\ NoDangling
  /\ NoRepeats
  /\ playlists[MostPlayed] # <<>>
  /\ Len(playlists[RecentlyAdded]) < Len(tracks) + 1

SavedAfterChange ==
  [][(last'.op # "restart" /\ <<tracks, playlists>>' # <<tracks, playlists>>)
       => saved' = JsonDump(tracks', playlists')]_vars

\* C11: when music_library.json exists and cannot be read or parsed,
\* load_library leaves tracks empty and playlists equal to the default set
\* used when there is no file; load_playlists of the playlist page returns
\* get_default_playlists() on such a failure.
LoadFailureDefaults ==
  /\ (last.op = "restart" /\ saved = Corrupt)
       => (tracks = <<>> /\ playlists = DefaultPlaylists)
  /\ load_playlists(Corrupt) = get_default_playlists

\* C12: a write of save_library that fails changes nothing else: the method
\* returns what it returns when the write ends well, tracks and playlists
\* are as after a write that ends well, and the file keeps its content.
MemoryAsSaved(r, ok) ==
  /\ r.ret = ok.ret
  /\ r.tracks = ok.tracks
  /\ r.playlists = ok.playlists

SaveFailureKeepsFile ==
  \A w \in WriteOutcomes \ {"ok"} :
    /\ \A k \in Ids :
         LET r == add_track(Lib, extract_track_info(k), w)
         IN  MemoryAsSaved(r, add_track(Lib, extract_track_info(k), "ok")) /\ r.saved = saved
    /\ \A name \in Names :
         LET r == create_playlist(Lib, name, w)
         IN  MemoryAsSaved(r, create_playlist(Lib, name, "ok")) /\ r.saved = saved

\* C12, as the code has it: a write that fails at open() leaves the file as
\* it was, a write that fails after open() leaves a file that cannot be
\* parsed; in both cases the method returns what it returns when the write
\* ends well and tracks and playlists are as after a write that ends well.
\* A handler leaves the file as it was, unparsable, or holding the document
\* of the tracks and playlists in memory.
FileAfter(w, r, before) ==
  IF ~r.ret THEN r.saved = before
  ELSE CASE w = "ok" -> r.saved = JsonDump(r.tracks, r.playlists)
         [] w = "open_failed" -> r.saved = before
         [] w = "dump_failed" -> r.saved = Corrupt

SaveFailureLogged ==
  [][/\ \A w \in WriteOutcomes :
          /\ \A k \in Ids :
               LET r == add_track(Lib, extract_track_info(k), w)
               IN  /\ MemoryAsSaved(r, add_track(Lib, extract_track_info(k), "ok"))
                   /\ FileAfter(w, r, saved)
          /\ \A name \in Names :
               LET r == create_playlist(Lib, name, w)
               IN  /\ MemoryAsSaved(r, create_playlist(Lib, name, "ok"))
                   /\ FileAfter(w, r, saved)
          /\ \A id \in Ids, now \in Times :
               LET r == increment_play_count(Lib, id, now, w)
               IN  /\ MemoryAsSaved(r, increment_play_count(Lib, id, now, "ok"))
                   /\ FileAfter(w, r, saved)
     /\ saved' \in {saved, Corrupt, JsonDump(tracks', playlists')}]_vars

\* a file has been added and the write failed after open()
SaveFailureLoggedWitness ==
  /\ last.op = "add_music_files"
  /\ last.ret = TRUE
  /\ last.id \in existing_ids(tracks)
  /\ saved = Corrupt

\* the files of the list a scanner walked that this predicate holds of, in
\* the order of the walk
FilesWhere(th, P(_)) == SelectSeq(th.all_files, P)
TagsRead(f) == dir.files[f] = "tags"
NotRaised(f) == dir.files[f] # "raises"

\* C13: a file whose read failed is skipped and the scan goes on: the list
\* of scan_complete holds no track for a file whose tags could not be read
\* and a track for every other audio file, and the tracks gathered before a
\* failure stay.
SkippedOnReadFailure ==
  \A who \in Scanners :
    (threads[who].pc = "done" /\ dir.exists)
      => threads[who].music_data = FilesWhere(threads[who], TagsRead)

\* C13, as the code has it: a file whose tags cannot be read still gets a
\* track (with the values taken from its name); only a file for which
\* extract_track_info raises is skipped.  Each turn of the loop keeps the
\* tracks gathered so far, and the list of scan_complete holds a track for
\* every file but those.
SkippedWhenRaised ==
  [][\A who \in Scanners :
       LET th == threads[who]
           after == threads'[who]
       IN  /\ (th.pc = "scanning" /\ after.pc = "scanning" /\ after.i = th.i + 1)
                => LET f == th.all_files[after.i]
                   IN  after.music_data =
                         (IF dir.files[f] = "raises" THEN th.music_data
                          ELSE Append(th.music_data, f))
           /\ (th.pc = "scanning" /\ after.pc = "done")
                => /\ after.music_data = th.music_data
                   /\ after.music_data = FilesWhere(th, NotRaised)]_vars

\* a scan has ended whose first file made extract_track_info raise and
\* whose second file had no readable tags
SkippedWhenRaisedWitness ==
  \E who \in Scanners :
    LET th == threads[who]
    IN  /\ th.pc = "done"
        /\ Len(th.all_files) = 2
        /\ dir.files[th.all_files[1]] = "raises"
        /\ dir.files[th.all_files[2]] = "no_tags"
        /\ th.music_data = <<th.all_files[2]>>

\* scan_progress(0, total), ..., scan_progress(i, total)
ProgressUpTo(i, total) == [j \in 1..(i + 1) |-> scan_progress(j - 1, total)]

\* C14: a scanner whose root exists and holds N audio files emits
\* scan_progress(0, N), then scan_progress(i, N) for i = 1..N in this order,
\* one for each file whether or not it could be read, then scan_complete
\* once; a scanner whose root does not exist emits scan_complete([]) alone.
\* Stated of the signals a scanner has emitted so far, at every point of
\* run().
ProgressProtocol ==
  \A who \in Scanners :
    LET th == threads[who]
        total == Len(th.all_files)
    IN  CASE th.pc \in {"started", "raised"} -> signals[who] = <<>>
          [] th.pc = "scanning" -> signals[who] = ProgressUpTo(th.i, total)
          [] th.pc = "done" ->
               IF dir.exists
               THEN signals[who] = Append(ProgressUpTo(total, total), scan_complete(th.music_data))
               ELSE signals[who] = <<scan_complete(<<>>)>>
          [] OTHER -> TRUE

\* a scan of two files has ended, one of which could not be read
ProgressProtocolWitness ==
  \E who \in Scanners :
    /\ threads[who].pc = "done"
    /\ Len(threads[who].all_files) = 2
    /\ Len(threads[who].music_data) = 1
    /\ Len(signals[who]) = 4

\* C15: a scanner that was started emits scan_complete in the end, also
\* when files cannot be read or the walk of the directory raises, and a
\* refresh that was started reaches _on_refresh_complete, which enables the
\* refresh button again.
ScanRunsToCompletion ==
  /\ \A who \in Scanners :
       (threads[who].pc = "started") ~> (threads[who].pc \in {"done", "idle"})
  /\ (~btn_refresh) ~> btn_refresh

\* the ids one scan of these files has to produce
IdsOf(files) == {extract_track_info(f).id : f \in files}

OneTrackEach(music_data, files) ==
  /\ Range(music_data) = IdsOf(files)
  /\ Len(music_data) = Cardinality(files)

\* C16: one scan produces one track for each audio file under the root,
\* with the id that belongs to the path of the file, and two scans of a
\* directory that has not changed produce the same set of ids.
OneTrackPerFile ==
  \A who \in Scanners :
    (threads[who].pc = "done" /\ dir.exists)
      => /\ OneTrackEach(threads[who].music_data, DOMAIN dir.files)
         /\ \A other \in Scanners :
              threads[other].pc = "done"
                => Range(threads[other].music_data) = Range(threads[who].music_data)

\* C16, as the code has it: one track for each audio file for which
\* extract_track_info does not raise.
OneTrackPerReadFile ==
  \A who \in Scanners :
    (threads[who].pc = "done" /\ dir.exists)
      => /\ OneTrackEach(threads[who].music_data, {f \in DOMAIN dir.files : NotRaised(f)})
         /\ \A other \in Scanners :
              threads[other].pc = "done"
                => Range(threads[other].music_data) = Range(threads[who].music_data)

\* the two scanners have walked the same two files in different orders
OneTrackPerReadFileWitness ==
  /\ threads.startup.pc = "done"
  /\ threads.refresh.pc = "done"
  /\ Len(threads.startup.music_data) = 2
  /\ threads.startup.music_data # threads.refresh.music_data

\* add_to_playlist(P, id) on lib: True and id appended at the end exactly
\* when P exists and does not hold id, otherwise False and nothing changes;
\* the same call again changes nothing
AddChecked(lib, P, id) ==
  LET r     == add_to_playlist(lib, P, id, "ok")
      again == add_to_playlist(LibOf(r), P, id, "ok")
      can   == HasPlaylist(lib.playlists, P) /\ id \notin Range(GetPlaylist(lib.playlists, P))
  IN  /\ r.ret = can
      /\ can => /\ LibOf(r).tracks = lib.tracks
                /\ LibOf(r).playlists =
                     SetPlaylist(lib.playlists, P, Append(GetPlaylist(lib.playlists, P), id))
      /\ ~can => LibOf(r) = lib
      /\ ~again.ret
      /\ LibOf(again) = LibOf(r)

\* remove_from_playlist(P, id) on lib: True and id removed exactly when P
\* exists and holds id, otherwise False and nothing changes; the same call
\* again changes nothing
RemoveChecked(lib, P, id) ==
  LET r     == remove_from_playlist(lib, P, id, "ok")
      again == remove_from_playlist(LibOf(r), P, id, "ok")
      can   == HasPlaylist(lib.playlists, P) /\ id \in Range(GetPlaylist(lib.playlists, P))
  IN  /\ r.ret = can
      /\ can => /\ LibOf(r).tracks = lib.tracks
                /\ LibOf(r).playlists =
                     SetPlaylist(lib.playlists, P,
                                 SelectSeq(GetPlaylist(lib.playlists, P), LAMBDA x : x # id))
      /\ ~can => LibOf(r) = lib
      /\ ~again.ret
      /\ LibOf(again) = LibOf(r)

\* the playlist P of lib, if there is one, holds no id twice
NoRepeatsIn(lib, P) ==
  HasPlaylist(lib.playlists, P)
    => LET ids == GetPlaylist(lib.playlists, P)
       IN  \A i, j \in DOMAIN ids : ids[i] = ids[j] => i = j

\* C17: add_to_playlist and remove_from_playlist check the membership and
\* are idempotent, for every playlist name and every id, on every library
\* the program reaches.
MembershipChecked ==
  \A P \in Names, id \in Ids :
    AddChecked(Lib, P, id) /\ RemoveChecked(Lib, P, id)

\* What holds of the two functions: the same, for the playlists that hold no
\* id twice.
MembershipCheckedNoRepeats ==
  \A P \in Names, id \in Ids :
    /\ AddChecked(Lib, P, id)
    /\ NoRepeatsIn(Lib, P) => RemoveChecked(Lib, P, id)

\* the now-playing menu has removed a track from a playlist that still
\* holds other ids, and Favorites holds two ids that were added
MembershipCheckedWitness ==
  /\ last.op = "now_playing_remove"
  /\ last.ret
  /\ HasPlaylist(playlists, last.name)
  /\ GetPlaylist(playlists, last.name) # <<>>
  /\ last.id \notin Range(GetPlaylist(playlists, last.name))
  /\ Len(GetPlaylist(playlists, Favorites)) = 2

\* the steps of the UI thread that put tracks into the library
MergeOps == {"on_scan_complete", "_on_refresh_complete"}

\* C18: the scanner thread never changes tracks or playlists; the tracks of
\* a scan enter the library only in the scan_complete handler on the UI
\* thread, all of them in that one step, so that no operation on the
\* library finds a scan merged in part.  Besides the handlers only
\* add_music_files and the load at startup bring ids into tracks.
ScanMergedByUIThread ==
  [][/\ (last'.op = "MusicScanner.run") => UNCHANGED libvars
     /\ (threads' # threads /\ last'.op \notin MergeOps \cup {"restart"})
          => UNCHANGED libvars
     /\ (last'.op \notin MergeOps \cup {"add_music_files", "restart"})
          => existing_ids(tracks') \subseteq existing_ids(tracks)
     /\ (last'.op = "on_scan_complete")
          => /\ threads.startup.pc = "done"
             /\ existing_ids(tracks') =
                  existing_ids(tracks) \cup Range(threads.startup.music_data)
     /\ (last'.op = "_on_refresh_complete")
          => /\ threads.refresh.pc = "done"
             /\ existing_ids(tracks') = Range(threads.refresh.music_data)]_vars

\* the list of the refresh scanner, two tracks, has been merged while the
\* startup scanner is in the middle of its loop
ScanMergedByUIThreadWitness ==
  /\ last.op = "_on_refresh_complete"
  /\ Len(tracks) = 2
  /\ threads.startup.pc = "scanning"
  /\ threads.startup.i = 1
  /\ Len(threads.startup.music_data) = 1

\* C19: when the track that plays ends, the player moves to the next track
\* of current_playlist, wrapping at the end, and starts it.
EndOfMediaAdvances ==
  [][(last'.op = "_on_end_of_media" /\ current_playlist # <<>>)
       => /\ current_track_index' = (current_track_index + 1) % Len(current_playlist)
          /\ audio' = "playing"]_vars

\* C20: a click on play/pause while the button animation runs only sets
\* _queued_state, to "pause" if playing and to "play" if not, whatever
\* was queued before; the engine, _is_playing, the animation and the
\* library are left alone.  The timeout that ends the animation resets
\* _queued_state to None and starts one single-shot timer with the value
\* it found, none if it found None; the timer calls _process_queued_state
\* with that value.
ClickQueuedWhileAnimating ==
  [][/\ (last'.op = "on_play_pause" /\ animating)
          => /\ queued_state' = IF is_playing THEN "pause" ELSE "play"
             /\ UNCHANGED <<audio, is_playing, animating, anim_index, timers,
                            libvars, current_track_index>>
     /\ (last'.op = "on_frame" /\ last'.ret)
          => /\ ~animating'
             /\ queued_state' = None
             /\ timers' = IF queued_state = None THEN timers
                          ELSE Append(timers, queued_state)
             /\ UNCHANGED <<audio, is_playing>>
     /\ (last'.op = "_process_queued_state")
          => /\ last'.name = Head(timers)
             /\ timers' = Tail(timers)
             /\ UNCHANGED <<audio, is_playing>>]_vars

\* "play", queued by a click after the track ended during the animation,
\* has been processed and has started the next animation
ClickQueuedWhileAnimatingWitness ==
  /\ last.op = "_process_queued_state"
  /\ last.name = "play"
  /\ audio = "stopped"
  /\ ~is_playing
  /\ animating
  /\ timers = <<>>

\* the list without the entries equal to id
Without(ids, id) == SelectSeq(ids, LAMBDA x : x # id)

\* C21: after delete_track_from_library of a track, tracks holds no track
\* with its id, no playlist holds its id, every other track and every other
\* playlist entry is where it was, and the file holds that state.
DeletedEverywhere ==
  [][(last'.op = "delete_track_from_library")
       => /\ last'.id \notin existing_ids(tracks')
          /\ \A n \in DOMAIN playlists' : last'.id \notin Range(playlists'[n])
          /\ tracks' = SelectSeq(tracks, LAMBDA t : t.id # last'.id)
          /\ DOMAIN playlists' = DOMAIN playlists
          /\ \A n \in DOMAIN playlists : playlists'[n] = Without(playlists[n], last'.id)
          /\ saved' = JsonDump(tracks', playlists')]_vars

\* What holds of the deletion: the same, with the first entry of the id
\* taken out of each playlist.
DeletedFirstEntries ==
  [][(last'.op = "delete_track_from_library")
       => /\ last'.id \notin existing_ids(tracks')
          /\ tracks' = SelectSeq(tracks, LAMBDA t : t.id # last'.id)
          /\ DOMAIN playlists' = DOMAIN playlists
          /\ \A n \in DOMAIN playlists :
               playlists'[n] = IF last'.id \in Range(playlists[n])
                               THEN RemoveFirst(playlists[n], last'.id)
                               ELSE playlists[n]
          /\ saved' = JsonDump(tracks', playlists')]_vars

\* C22: every call of extract_dominant_colors returns exactly num_colors
\* colors: after a fresh extraction, after a failed one, and from the cache.
ExactlyNumColors ==
  [][(last'.op = "extract_dominant_colors") => Len(last'.ret) = last'.id]_vars

\* What holds of the calls: never more than num_colors colors; exactly
\* num_colors when the path was not in the cache.
AtMostNumColors ==
  [][(last'.op = "extract_dominant_colors")
       => /\ Len(last'.ret) <= last'.id
          /\ last'.name \notin DOMAIN color_cache => Len(last'.ret) = last'.id]_vars

\* a refresh scanner that has been started and whose list has not reached
\* its handler
InFlight == {"started", "scanning", "done"}

\* the scanner has emitted scan_complete and its handler has run
Delivered(who) ==
  /\ threads[who].pc = "idle"
  /\ signals[who] # <<>>
  /\ signals[who][Len(signals[who])][1] = "scan_complete"

\* the list the scanner emitted with scan_complete
DeliveredList(who) == signals[who][Len(signals[who])][2]

\* C23: at most one refresh scan is in flight: the button is pressed only
\* while no refresh scanner runs, it is disabled as long as one is in
\* flight, and only _on_refresh_complete (or a new start of the
\* application) enables it.  The refresh may overlap the startup scan; after
\* each completion handler tracks holds one entry per id, after
\* _on_refresh_complete the ids of the refresh list, and after an
\* on_scan_complete that follows the refresh the ids of both lists.
OneRefreshInFlight ==
  [][/\ (last'.op = "refresh_library_and_playlists")
          => /\ btn_refresh /\ ~btn_refresh'
             /\ threads.refresh.pc = "idle"
             /\ threads'.refresh.pc = "started"
     /\ (threads'.refresh.pc \in InFlight) => ~btn_refresh'
     /\ (~btn_refresh /\ btn_refresh') => last'.op \in {"_on_refresh_complete", "restart"}
     /\ (last'.op \in MergeOps)
          => \A i, j \in DOMAIN tracks' : i # j => tracks'[i].id # tracks'[j].id
     /\ (last'.op = "_on_refresh_complete")
          => existing_ids(tracks') = Range(threads.refresh.music_data)
     /\ (last'.op = "on_scan_complete" /\ Delivered("refresh"))
          => existing_ids(tracks') =
               Range(DeliveredList("refresh")) \cup Range(threads.startup.music_data)]_vars

\* the list of the startup scan has been merged after that of a refresh
\* that overlapped it; both scans found the same two files
OneRefreshInFlightWitness ==
  /\ last.op = "on_scan_complete"
  /\ Delivered("refresh")
  /\ Delivered("startup")
  /\ Len(DeliveredList("refresh")) = 2
  /\ Range(DeliveredList("startup")) = Range(DeliveredList("refresh"))
  /\ Len(tracks) = 2
  /\ btn_refresh

\* C24: whenever no animation runs and no queued state waits, in
\* _queued_state or in a single-shot timer, the play button shows the pause
\* icon exactly when _is_playing is true.
ButtonShowsPlaying ==
  (~animating /\ queued_state = None /\ timers = <<>>)
    => ((btn_play_icon = "pause") <=> is_playing)

\* C25: whenever current_playlist is not empty, current_track_index is at
\* least -1 and less than its length, and on_play_pause never indexes
\* current_playlist out of range.
IndexInRange ==
  /\ current_playlist # <<>>
       => (-1 <= current_track_index /\ current_track_index < Len(current_playlist))
  /\ ~(last.op = "on_play_pause" /\ last.name = "raised")

\* the playlist that played its second track was deleted, and a track
\* started from the home page has been appended to the empty list
IndexInRangeWitness ==
  /\ last.op = "play_track_by_id"
  /\ last.ret
  /\ current_playlist_name = ""
  /\ Len(current_playlist) = 1
  /\ current_track_index = 0
  /\ ~HasPlaylist(playlists, "Mix")

\* the handler has started the track last.id
StartedTrack(l) ==
  \/ l.op \in {"on_next", "on_prev"}
  \/ l.op = "on_playlist_clicked" /\ l.id # 0
  \/ l.op = "on_play_pause" /\ l.name = "play"
  \/ l.op = "play_track_by_id" /\ l.ret

\* C26: after every handler that starts a track of current_playlist,
\* current_track_index is the position of that track in current_playlist.
IndexOfStartedTrack ==
  [][StartedTrack(last')
       => /\ 0 <= current_track_index'
          /\ current_track_index' < Len(current_playlist')
          /\ current_playlist'[current_track_index' + 1] = last'.id]_vars

\* What holds: the same for every handler but on_playlist_clicked, which
\* starts the first track and leaves the index at -1.
IndexOfStartedTrackButClick ==
  [][(StartedTrack(last') /\ last'.op # "on_playlist_clicked")
       => /\ 0 <= current_track_index'
          /\ current_track_index' < Len(current_playlist')
          /\ current_playlist'[current_track_index' + 1] = last'.id]_vars

\* C27: on_play_pause that pauses the playing track, followed by
\* on_play_pause that starts it again, counts no new play: tracks, with
\* the play counts, and the playlists, with Most Played, stay as they are.
ResumeCountsNoPlay ==
  [][(/\ last.op = "on_play_pause" /\ last.name = "pause"
      /\ last'.op = "on_play_pause" /\ last'.name = "play")
       => UNCHANGED <<tracks, playlists>>]_vars

\* the two remove actions of the home page
RemoveOps == {"context_menu_remove", "now_playing_remove"}

\* C28: while the home page shows Favorites, Recently Added or Most
\* Played, the remove actions of the home page leave that playlist as it
\* is.
SystemPlaylistKept ==
  [][(last'.op \in RemoveOps /\ home_playlist \in SystemPlaylists)
       => playlists'[home_playlist] = playlists[home_playlist]]_vars

====
